---- MODULE Spec2Model ----
(***************************************************************************)
(* Model of the QYRA puzzle core: the graph engine (CGraph), the path      *)
(* engine (CPath) with its parallel DFS, and the facade (CQYRA).           *)
(*                                                                         *)
(* Byte vectors are sequences over 0..255.  The adjacency matrix           *)
(* (MAX_NODES bitsets of MAX_NODES bits) is the set of pairs <<i, j>>      *)
(* whose bit j is set in row i.  Keys are handles of the key byte arrays.  *)
(* The Kyber, AES-256-CBC and BLAKE3 primitives live outside the           *)
(* repository; they are replaced by small deterministic stand-ins that     *)
(* keep the sizes and the structure (KEM round trip, CBC chaining with     *)
(* PKCS#7 padding, a 32-byte digest).                                      *)
(***************************************************************************)
EXTENDS Integers, Sequences, FiniteSets, TLC

\* ------------------------------------------------------------------ sizes
MAX_NODES == 4096
ENC_SIZE == 144
IV_SIZE == 16
CIPHERTEXT_SIZE == 1088
HASH_SIZE == 32
TOTAL_SIZE == ENC_SIZE + IV_SIZE + CIPHERTEXT_SIZE
SOLUTION_SIZE == TOTAL_SIZE + HASH_SIZE
HEADER_LEN == 108
NONCE_LEN == 32
AES_BLOCK == 16
SS_LEN == 32
PTR_SIZE == 8

\* ----------------------------------------------------------------- bounds
\* hardware_concurrency() of the modelled machine
NumCores == 2
\* number of outcomes of the random draws of one Mine call (the KEM
\* encapsulation coin and the IV from RAND_bytes)
NumDraws == 2
\* number of facade calls the miner makes once its instance is configured
MaxOps == 3

\* tampering flips bits in the first and the last TamperSpan bytes of a field
TamperSpan == 1
\* length of the byte sequences the derivation is applied to on its own
DeriveLen == 9

\* longest byte sequence Pack12 is applied to on its own
PackLen == 4

\* 12-bit values in an input of the path search on its own
PathLen == 5

\* bytes cut from or appended to a solution passed to Validate
AppendLen == 1

\* largest of the small thread counts whose node ranges are computed
MaxThreads == 100

\* ------------------------------------------------------------ byte helpers
Byte == 0..255

Min(a, b) == IF a < b THEN a ELSE b

Fill(n, b) == [i \in 1..n |-> b]

\* bytes [from, to) of a vector, offsets counted from 0
Slice(v, from, to) == SubSeq(v, from + 1, to)

\* sum of the elements lo..hi of a sequence (balanced recursion)
RECURSIVE SumRange(_, _, _)
SumRange(v, lo, hi) ==
    IF lo > hi THEN 0
    ELSE IF lo = hi THEN v[lo]
    ELSE LET mid == (lo + hi) \div 2
         IN SumRange(v, lo, mid) + SumRange(v, mid + 1, hi)

\* the elements of a finite set of integers in ascending order
SortedSeq(S) ==
    [i \in 1..Cardinality(S) |->
        CHOOSE x \in S : Cardinality({y \in S : y < x}) = i - 1]

\* value of bit b of a byte, and the byte with bit b flipped
BitOf(x, b) == (x \div (2 ^ b)) % 2
FlipBit(x, b) == IF BitOf(x, b) = 1 THEN x - 2 ^ b ELSE x + 2 ^ b

\* a byte vector with bit b of the byte at offset pos (from 0) flipped
FlipAt(v, pos, b) == [v EXCEPT ![pos + 1] = FlipBit(v[pos + 1], b)]

\* ----------------------------------------------------------------- Pack12
\* utils.cpp Pack12: zero-pad to a multiple of 3, two 12-bit values per group
PaddedInput(input) ==
    LET paddingSize == (3 - (Len(input) % 3)) % 3
    IN input \o Fill(paddingSize, 0)

\* faulty variant: the two 12-bit values of a group in the other order
Pack12HighFirst(input) ==
    LET padded == PaddedInput(input)
        groups == Len(padded) \div 3
        Value(g) == padded[3 * g + 1] + 256 * padded[3 * g + 2] + 65536 * padded[3 * g + 3]
    IN [k \in 1..(2 * groups) |->
          LET g == (k - 1) \div 2
          IN IF (k - 1) % 2 = 0
             THEN (Value(g) \div 4096) % 4096
             ELSE Value(g) % 4096]

Pack12(input) ==
    LET padded == PaddedInput(input)
        groups == Len(padded) \div 3
        Value(g) == padded[3 * g + 1] + 256 * padded[3 * g + 2] + 65536 * padded[3 * g + 3]
    IN [k \in 1..(2 * groups) |->
          LET g == (k - 1) \div 2
          IN IF (k - 1) % 2 = 0
             THEN Value(g) % 4096
             ELSE (Value(g) \div 4096) % 4096]

\* utils.cpp Pack12 has no throw statement: no input makes it throw
Pack12Throws(input) == FALSE

\* inverse of Pack12 on an even number of 12-bit values
Unpack12(vals) ==
    [i \in 1..(3 * (Len(vals) \div 2)) |->
        LET g == (i - 1) \div 3
            low == vals[2 * g + 1]
            high == vals[2 * g + 2]
            value == low + 4096 * high
        IN CASE (i - 1) % 3 = 0 -> value % 256
             [] (i - 1) % 3 = 1 -> (value \div 256) % 256
             [] OTHER -> (value \div 65536) % 256]

\* ----------------------------------------------------------------- CStream
\* stream.h: a byte vector with a read cursor
StreamOf(input) == [vchData |-> input, nPos |-> 0]

StreamAppend(s, input) == [s EXCEPT !.vchData = s.vchData \o input]

\* operator<<(uint16_t): two bytes, little-endian
StreamAppendU16(s, value) ==
    [s EXCEPT !.vchData = s.vchData \o << value % 256, (value \div 256) % 256 >>]

\* faulty variant: the cursor stays where it is
StreamReadVecKeepsCursor(s, n) ==
    IF s.nPos + n > Len(s.vchData)
    THEN [ok |-> FALSE, out |-> << >>, s |-> s]
    ELSE [ok |-> TRUE, out |-> Slice(s.vchData, s.nPos, s.nPos + n), s |-> s]

\* operator>>(std::vector&): reads exactly n = output.size() bytes or throws
StreamReadVec(s, n) ==
    IF s.nPos + n > Len(s.vchData)
    THEN [ok |-> FALSE, out |-> << >>, s |-> s]
    ELSE [ok |-> TRUE,
          out |-> Slice(s.vchData, s.nPos, s.nPos + n),
          s |-> [s EXCEPT !.nPos = s.nPos + n]]

\* faulty variant: only sizeof(pointer) bytes are copied
StreamReadRawPointerSized(s) ==
    IF s.nPos + PTR_SIZE > Len(s.vchData)
    THEN [ok |-> FALSE, out |-> << >>, s |-> s]
    ELSE [ok |-> TRUE,
          out |-> Slice(s.vchData, s.nPos, s.nPos + PTR_SIZE),
          s |-> [s EXCEPT !.nPos = s.nPos + PTR_SIZE]]

\* operator>>(uint8_t*): the bound check and the cursor use sizeof(pointer),
\* the copy runs from the cursor to the end of the buffer
StreamReadRaw(s) ==
    IF s.nPos + PTR_SIZE > Len(s.vchData)
    THEN [ok |-> FALSE, out |-> << >>, s |-> s]
    ELSE [ok |-> TRUE,
          out |-> Slice(s.vchData, s.nPos, Len(s.vchData)),
          s |-> [s EXCEPT !.nPos = s.nPos + PTR_SIZE]]

\* ------------------------------------------------------------------ BLAKE3
\* stand-in digest: 16 position-weighted checksums, each stored twice, so
\* two different digests of this function never differ in a single bit
RECURSIVE FoldLane(_, _, _)
FoldLane(data, lane, i) ==
    IF i > Len(data) THEN 0
    ELSE (((i - 1) \div 16) + 1) * data[i] + FoldLane(data, lane, i + 16)

BLAKE3(data) ==
    [j \in 1..HASH_SIZE |->
        LET lane == (j - 1) % 16
        IN (FoldLane(data, lane, lane + 1) + Len(data) * (lane + 1)) % 256]

\* --------------------------------------------------------------- Kyber-768
\* number of key pairs the caller may hand to Initialize
NumKeys == 1

\* handle k in KeyIds names the public and the secret key of pair k; the key
\* arrays of a constructed graph hold bytes that belong to no pair
KeyIds == 1..NumKeys
UnsetPublicKey == 0
UnsetSecretKey == NumKeys + 1

\* the KEM ciphertext of an encapsulation to pk with the given coin
KemCiphertext(pk, coin) ==
    [i \in 1..CIPHERTEXT_SIZE |-> IF i = 1 THEN pk ELSE IF i = 2 THEN coin ELSE 0]

\* decapsulation never fails (implicit rejection): every ciphertext gives a
\* secret, and a changed ciphertext or another key gives another secret
KemSecret(sk, ct) ==
    Fill(SS_LEN, (SumRange(ct, 1, Len(ct)) + 7 * sk + 243) % 256)

\* crypto.cpp GenerateCiphertext: OQS_KEM_kyber_768_encaps, which may fail
GenerateCiphertext(publicKey, coin, kemOk) ==
    IF ~kemOk
    THEN [ok |-> FALSE, ciphertext |-> Fill(CIPHERTEXT_SIZE, 0), sharedSecret |-> Fill(SS_LEN, 0)]
    ELSE LET ct == KemCiphertext(publicKey, coin)
         IN [ok |-> TRUE, ciphertext |-> ct, sharedSecret |-> KemSecret(publicKey, ct)]

\* crypto.cpp RecoverSharedSecret: OQS_KEM_kyber_768_decaps
RecoverSharedSecret(ciphertext, secretKey) ==
    [ok |-> TRUE, sharedSecret |-> KemSecret(secretKey, ciphertext)]

\* ------------------------------------------------------------- AES-256-CBC
\* draw d gets the IV whose bytes are all d - 1 from RAND_bytes
DrawIV(d) == Fill(IV_SIZE, d - 1)

PKCS7Pad(message) ==
    LET p == AES_BLOCK - (Len(message) % AES_BLOCK)
    IN message \o Fill(p, p)

\* CBC chaining over 16-byte blocks; the block cipher adds the key bytes and
\* the chaining adds the previous ciphertext block (the IV for block 0)
RECURSIVE CbcEncrypt(_, _, _, _)
CbcEncrypt(padded, key, prev, done) ==
    IF Len(done) = Len(padded) THEN done
    ELSE LET base == Len(done)
             block == [b \in 1..AES_BLOCK |-> (padded[base + b] + prev[b] + key[b]) % 256]
         IN CbcEncrypt(padded, key, block, done \o block)

CbcDecrypt(enc, key, iv) ==
    [i \in 1..Len(enc) |->
        LET b == ((i - 1) % AES_BLOCK) + 1
            prev == IF i <= AES_BLOCK THEN iv[b] ELSE enc[i - AES_BLOCK]
        IN (enc[i] - prev - key[b]) % 256]

\* crypto.cpp EncryptData; encOld and ivOld are the output vectors on entry
EncryptData(message, encOld, sharedSecret, ivOld, ivRand) ==
    IF message = << >>
    THEN [ok |-> FALSE, enc |-> encOld, iv |-> ivOld]
    ELSE [ok |-> TRUE,
          enc |-> CbcEncrypt(PKCS7Pad(message), sharedSecret, ivRand, << >>),
          iv |-> ivRand]

\* crypto.cpp DecryptData; EVP_DecryptFinal_ex rejects a partial last block
\* and a bad PKCS#7 padding
DecryptData(enc, sharedSecret, iv) ==
    IF Len(iv) # IV_SIZE \/ enc = << >> \/ Len(enc) % AES_BLOCK # 0
    THEN [ok |-> FALSE, message |-> << >>]
    ELSE LET padded == CbcDecrypt(enc, sharedSecret, iv)
             p == padded[Len(padded)]
         IN IF p >= 1 /\ p <= AES_BLOCK
               /\ \A i \in (Len(padded) - p + 1)..Len(padded) : padded[i] = p
            THEN [ok |-> TRUE, message |-> SubSeq(padded, 1, Len(padded) - p)]
            ELSE [ok |-> FALSE, message |-> << >>]

\* ------------------------------------------------------------------ CGraph
Nodes == 0..(MAX_NODES - 1)

\* row i of the matrix as the set of its set bits
Row(adj, i) == {e[2] : e \in {x \in adj : x[1] = i}}

\* faulty variant: the rows keep their bits
ClearKeepsRows(adj) == adj

\* graph.cpp Clear: every row empty
Clear(adj) == {}

\* bitset::reset() on row i
ResetRow(adj, i) == IF Row(adj, i) = {} THEN adj ELSE adj \ ({i} \X Row(adj, i))

\* faulty variant: the bit is set whatever the row holds
AddEdgeKeepsRow(adj, from, to) ==
    IF from >= MAX_NODES \/ to >= MAX_NODES
    THEN [ok |-> FALSE, adj |-> adj]
    ELSE [ok |-> TRUE, adj |-> adj \cup {<< from, to >>}]

\* faulty variant: a row that holds a bit is overwritten
AddEdgeOverwrites(adj, from, to) ==
    IF from >= MAX_NODES \/ to >= MAX_NODES
    THEN [ok |-> FALSE, adj |-> adj]
    ELSE [ok |-> TRUE, adj |-> ResetRow(adj, from) \cup {<< from, to >>}]

\* graph.cpp AddEdge
AddEdge(adj, from, to) ==
    IF from >= MAX_NODES \/ to >= MAX_NODES
    THEN [ok |-> FALSE, adj |-> adj]
    ELSE IF Row(adj, from) # {}
    THEN [ok |-> TRUE, adj |-> adj]
    ELSE [ok |-> TRUE, adj |-> ResetRow(adj, from) \cup {<< from, to >>}]

\* faulty variant: pairs whose end node is in visited are not skipped
UpdateStepNoVisitedCheck(edges, i, st) ==
    LET from == edges[i]
        to == edges[i + 1]
    IN IF ~st.ok THEN st
       ELSE IF from # to
       THEN LET r == AddEdge(st.adj, from, to)
            IN IF ~r.ok THEN [ok |-> FALSE, adj |-> r.adj, visited |-> st.visited]
               ELSE [ok |-> TRUE, adj |-> r.adj, visited |-> st.visited \cup {from}]
       ELSE st

\* faulty variant: the end node of the pair is inserted into visited
UpdateStepVisitsTo(edges, i, st) ==
    LET from == edges[i]
        to == edges[i + 1]
    IN IF ~st.ok THEN st
       ELSE IF from # to /\ to \notin st.visited
       THEN LET r == AddEdge(st.adj, from, to)
            IN IF ~r.ok THEN [ok |-> FALSE, adj |-> r.adj, visited |-> st.visited]
               ELSE [ok |-> TRUE, adj |-> r.adj, visited |-> st.visited \cup {to}]
       ELSE st

\* one iteration of the loop of UpdateGraphFromData, for the pair
\* (edges[i], edges[i + 1]); st carries the matrix, the visited set and
\* whether an AddEdge call has failed (the loop then returns at once)
UpdateStep(edges, i, st) ==
    LET from == edges[i]
        to == edges[i + 1]
    IN IF ~st.ok THEN st
       ELSE IF from # to /\ to \notin st.visited
       THEN LET r == AddEdge(st.adj, from, to)
            IN IF ~r.ok THEN [ok |-> FALSE, adj |-> r.adj, visited |-> st.visited]
               ELSE [ok |-> TRUE, adj |-> r.adj, visited |-> st.visited \cup {from}]
       ELSE st

\* iterations lo..hi of that loop, in order
RECURSIVE UpdateLoop(_, _, _, _)
UpdateLoop(edges, lo, hi, st) ==
    IF lo > hi THEN st
    ELSE IF lo = hi THEN UpdateStep(edges, lo, st)
    ELSE LET mid == (lo + hi) \div 2
             first == UpdateLoop(edges, lo, mid, st)
         IN IF first.ok THEN UpdateLoop(edges, mid + 1, hi, first) ELSE first

\* graph.cpp UpdateGraphFromData, applied to the matrix left by earlier calls
UpdateGraphFromData(adj, data) ==
    LET cleared == Clear(adj)
    IN IF data = << >> THEN [ok |-> FALSE, adj |-> cleared]
       ELSE LET edges == Pack12(data)
            IN IF Len(edges) < 2 THEN [ok |-> FALSE, adj |-> cleared]
               ELSE LET st == UpdateLoop(edges, 1, Len(edges) - 1,
                                         [ok |-> TRUE, adj |-> cleared, visited |-> {}])
                    IN [ok |-> st.ok, adj |-> st.adj]

\* graph.cpp Generate on graph record g; coin, ivRand and kemOk are what the
\* KEM and the random generator deliver in this call
Generate(g, coin, ivRand, kemOk) ==
    LET message == g.header \o g.nonce
        kem == GenerateCiphertext(g.publicKey, coin, kemOk)
        g1 == [g EXCEPT !.ciphertext = kem.ciphertext]
    IN IF ~kem.ok THEN [ok |-> FALSE, g |-> g1]
       ELSE LET e == EncryptData(message, g.enc, kem.sharedSecret, g.iv, ivRand)
                g2 == [g1 EXCEPT !.enc = e.enc, !.iv = e.iv]
            IN IF ~e.ok THEN [ok |-> FALSE, g |-> g2]
               ELSE LET u == UpdateGraphFromData(g.adjacencyMatrix, e.enc)
                    IN [ok |-> u.ok, g |-> [g2 EXCEPT !.adjacencyMatrix = u.adj]]

\* faulty variant: only the lengths are compared
PlaintextMatchesLength(decryptedMessage, expectedMessage) ==
    Len(decryptedMessage) = Len(expectedMessage)

\* graph.cpp Validate line 310: the decrypted message equals header || nonce
PlaintextMatches(decryptedMessage, expectedMessage) ==
    decryptedMessage = expectedMessage

\* std::copy into the fixed array that output points to: the bytes read
\* replace the front of the array, the rest of the array stays
CopyInto(array, bytes) ==
    [k \in 1..Len(array) |-> IF k <= Len(bytes) THEN bytes[k] ELSE array[k]]

\* graph.cpp Validate on graph record g
GraphValidate(g, vch) ==
    IF vch = << >> \/ Len(vch) # TOTAL_SIZE THEN [ok |-> FALSE, g |-> g]
    ELSE LET s0 == StreamOf(vch)
             r1 == StreamReadVec(s0, ENC_SIZE)
             r2 == StreamReadVec(r1.s, IV_SIZE)
             r3 == StreamReadRaw(r2.s)
             g1 == [g EXCEPT !.enc = r1.out, !.iv = r2.out,
                             !.ciphertext = CopyInto(g.ciphertext, r3.out)]
             ss == RecoverSharedSecret(g1.ciphertext, g.secretKey)
             d == DecryptData(g1.enc, ss.sharedSecret, g1.iv)
         IN IF ~ss.ok \/ ~d.ok THEN [ok |-> FALSE, g |-> g1]
            ELSE IF ~PlaintextMatches(d.message, g.header \o g.nonce)
            THEN [ok |-> FALSE, g |-> g1]
            ELSE LET u == UpdateGraphFromData(g.adjacencyMatrix, g1.enc)
                 IN [ok |-> u.ok, g |-> [g1 EXCEPT !.adjacencyMatrix = u.adj]]

\* ------------------------------------------------------------------- CPath
\* path.cpp GetHash: the nodes as little-endian 16-bit integers, hashed
NodeBytes(nodes) ==
    [i \in 1..(2 * Len(nodes)) |->
        LET node == nodes[(i + 1) \div 2]
        IN IF i % 2 = 1 THEN node % 256 ELSE (node \div 256) % 256]

GetHash(nodes) == BLAKE3(NodeBytes(nodes))

\* path.cpp IsValid
IsValid(nodes, adj) ==
    /\ nodes # << >>
    /\ \A i \in 1..(Len(nodes) - 1) :
          /\ nodes[i] < MAX_NODES
          /\ nodes[i + 1] < MAX_NODES
          /\ << nodes[i], nodes[i + 1] >> \in adj

\* path.cpp DFSHelper: the paths it compares with the shared longest path
\* (one per leaf it reaches), in the order it reaches them; visited and
\* currentPath are restored when it returns
RECURSIVE DFSHelper(_, _, _, _), ExploreNeighbors(_, _, _, _, _)
ExploreNeighbors(adj, order, k, visited, currentPath) ==
    IF k > Len(order) THEN << >>
    ELSE (IF order[k] \notin visited
          THEN DFSHelper(adj, order[k], visited, currentPath)
          ELSE << >>)
         \o ExploreNeighbors(adj, order, k + 1, visited, currentPath)

\* faulty variant: the leaf is compared before it is appended
DFSHelperComparesBeforePush(adj, node, visited, currentPath) ==
    LET vis == visited \cup {node}
        cur == Append(currentPath, node)
        neighbors == Row(adj, node)
    IN ExploreNeighbors(adj, SortedSeq(neighbors), 1, vis, cur)
       \o (IF neighbors = {} THEN << currentPath >> ELSE << >>)

DFSHelper(adj, node, visited, currentPath) ==
    LET vis == visited \cup {node}
        cur == Append(currentPath, node)
        neighbors == Row(adj, node)
    IN ExploreNeighbors(adj, SortedSeq(neighbors), 1, vis, cur)
       \o (IF neighbors = {} THEN << cur >> ELSE << >>)

\* faulty variant: a path of equal length is stored as well
CompareAndStoreOrEqual(longestPath, currentPath) ==
    IF Len(currentPath) >= Len(longestPath) THEN currentPath ELSE longestPath

\* path.cpp DFSHelper lines 182-187, under the mutex
CompareAndStore(longestPath, currentPath) ==
    IF Len(currentPath) > Len(longestPath) THEN currentPath ELSE longestPath

\* path.cpp FindDFS lines 220-224: the node range of one worker (uint16_t)
NodesPerThread(nThreads) == MAX_NODES \div nThreads
\* faulty variant: each worker leaves out the first node of its range
StartNodeSkipsFirst(threadIndex, nThreads) ==
    (threadIndex * NodesPerThread(nThreads) + 1) % 65536

StartNode(threadIndex, nThreads) == (threadIndex * NodesPerThread(nThreads)) % 65536
\* faulty variant: the last worker takes no more nodes than the others
EndNodeNoRemainder(threadIndex, nThreads) ==
    (StartNode(threadIndex, nThreads) + NodesPerThread(nThreads)) % 65536

EndNode(threadIndex, nThreads) ==
    IF threadIndex + 1 = nThreads THEN MAX_NODES % 65536
    ELSE (StartNode(threadIndex, nThreads) + NodesPerThread(nThreads)) % 65536

\* path.cpp FindDFS lines 227-238: the start nodes of one worker, ascending,
\* rows without edges skipped
WorkerStarts(adj, threadIndex, nThreads) ==
    SortedSeq({e[1] : e \in adj} \cap
              (StartNode(threadIndex, nThreads)..(EndNode(threadIndex, nThreads) - 1)))

\* faulty variant: currentPath is not popped when DFSHelper returns, so each
\* start node's search goes on from the path of the one before it
RECURSIVE CandidatesFromNoPop(_, _, _, _)
CandidatesFromNoPop(adj, starts, lo, hi) ==
    IF lo > hi THEN << >>
    ELSE LET earlier == CandidatesFromNoPop(adj, starts, lo, hi - 1)
             kept == IF earlier = << >> THEN << >> ELSE earlier[Len(earlier)]
         IN earlier \o DFSHelper(adj, starts[hi], {}, kept)

\* everything one worker compares with the shared longest path, in order
RECURSIVE CandidatesFrom(_, _, _, _)
CandidatesFrom(adj, starts, lo, hi) ==
    IF lo > hi THEN << >>
    ELSE IF lo = hi THEN DFSHelper(adj, starts[lo], {}, << >>)
    ELSE LET mid == (lo + hi) \div 2
         IN CandidatesFrom(adj, starts, lo, mid) \o CandidatesFrom(adj, starts, mid + 1, hi)

WorkerCandidates(adj, threadIndex, nThreads) ==
    LET starts == WorkerStarts(adj, threadIndex, nThreads)
    IN CandidatesFrom(adj, starts, 1, Len(starts))

\* path.cpp FindDFS with nThreads = 1: the one worker compares its leaf paths
\* in order, each with the longest path stored so far
RECURSIVE StoreAll(_, _, _)
StoreAll(longestPath, cands, k) ==
    IF k > Len(cands) THEN longestPath
    ELSE StoreAll(CompareAndStore(longestPath, cands[k]), cands, k + 1)

FindDFSSingleThread(adj) == StoreAll(<< >>, WorkerCandidates(adj, 0, 1), 1)

\* ------------------------------------------------------------------- CQYRA
\* faulty variant: the hash is written first
AssembleHashFirst(cryptoData) ==
    StreamAppend(StreamAppend(StreamAppend(StreamAppend(StreamOf(<< >>),
        cryptoData.hash), cryptoData.enc), cryptoData.iv), cryptoData.ciphertext).vchData

\* qyra.cpp Assemble: enc || iv || ciphertext || hash
Assemble(cryptoData) ==
    StreamAppend(StreamAppend(StreamAppend(StreamAppend(StreamOf(<< >>),
        cryptoData.enc), cryptoData.iv), cryptoData.ciphertext), cryptoData.hash).vchData

\* qyra.cpp Mine lines 163-226, after FindDFS has stored nodes; sol is the
\* CSolutionData member on entry
MineFinish(g, nodes, sol) ==
    IF Len(nodes) = 0 THEN [ok |-> FALSE, sol |-> sol]
    ELSE IF ~IsValid(nodes, g.adjacencyMatrix) THEN [ok |-> FALSE, sol |-> sol]
    ELSE LET cd == [enc |-> g.enc, iv |-> g.iv,
                    ciphertext |-> g.ciphertext, hash |-> GetHash(nodes)]
         IN IF cd.enc = << >> \/ cd.iv = << >> \/ cd.ciphertext = << >> \/ cd.hash = << >>
            THEN [ok |-> FALSE, sol |-> [solution |-> << >>, cryptoData |-> cd]]
            ELSE LET assembled == Assemble(cd)
                 IN [ok |-> Len(assembled) # 0,
                     sol |-> [solution |-> assembled, cryptoData |-> cd]]

\* faulty variant: the hash is taken from the end of the input
SplitSolutionHashAtEnd(vch) ==
    [graphData |-> StreamReadVec(StreamOf(vch), TOTAL_SIZE).out,
     pathHash |-> Slice(vch, Len(vch) - HASH_SIZE, Len(vch))]

\* qyra.cpp Validate lines 109-117: the split of the input
SplitSolution(vch) ==
    LET r1 == StreamReadVec(StreamOf(vch), TOTAL_SIZE)
        r2 == StreamReadVec(r1.s, HASH_SIZE)
    IN [graphData |-> r1.out, pathHash |-> r2.out]

\* ------------------------------------------------------------------ inputs
\* the secret the reference encapsulation (key pair 1, coin 1) yields
RefSecret == KemSecret(1, KemCiphertext(1, 1))
RefIV == Fill(IV_SIZE, 0)
RefNonce == Fill(NONCE_LEN, 4)

\* the header whose encryption with RefNonce under RefSecret and RefIV packs
\* to the given 12-bit values followed by zeros
HeaderFor(vals) ==
    LET target == Unpack12(vals \o Fill(2 * (ENC_SIZE \div 3) - Len(vals), 0))
    IN SubSeq(CbcDecrypt(target, RefSecret, RefIV), 1, HEADER_LEN)

\* two chains of equal length in different worker ranges: 1 -> 2, 3000 -> 0
TieHeader == HeaderFor(<< 1, 2, 1, 3000 >>)
\* no edge at all
FlatHeader == HeaderFor(<< >>)

Headers == {TieHeader, FlatHeader}
Nonces == {RefNonce}

\* ------------------------------------------------------------------- state
\* two puzzle instances: a miner drives A, a validator drives B
Instances == {"A", "B"}

VARIABLES
    graph,      \* per instance: the CGraph members
    path,       \* per instance: CPath::nodes
    solution,   \* per instance: CSolutionData (solution and cryptoData)
    call,       \* the facade call in progress (its FindDFS is running) or idle
    ret,        \* the last facade call that returned, with its return value
    mined,      \* per instance: the inputs of the Mine call that stored solution
    nOps        \* facade calls the miner has made

vars == << graph, path, solution, call, ret, mined, nOps >>

Idle == [op |-> "idle"]
NoMine == [ok |-> FALSE]

\* graph.h: the members of a constructed CGraph
NewGraph ==
    [adjacencyMatrix |-> {}, header |-> << >>, nonce |-> << >>,
     enc |-> << >>, iv |-> << >>,
     publicKey |-> UnsetPublicKey, secretKey |-> UnsetSecretKey,
     ciphertext |-> Fill(CIPHERTEXT_SIZE, 0), nThreads |-> 1]

NewSolution ==
    [solution |-> << >>,
     cryptoData |-> [enc |-> << >>, iv |-> << >>, ciphertext |-> << >>, hash |-> << >>]]

\* qyra.cpp CQYRA::CQYRA
Init ==
    /\ graph = [i \in Instances |-> NewGraph]
    /\ path = [i \in Instances |-> << >>]
    /\ solution = [i \in Instances |-> NewSolution]
    /\ call = Idle
    /\ ret = [op |-> "new"]
    /\ mined = [i \in Instances |-> NoMine]
    /\ nOps = 0

\* header and nonce of instance i are set
Configured(i) == graph[i].header # << >> /\ graph[i].nonce # << >>

\* the calls the miner makes on its configured instance are counted
Counted(i) == IF i = "A" /\ Configured(i) THEN nOps + 1 ELSE nOps

\* ----------------------------------------------------------------- actions
\* qyra.cpp Initialize -> graph.cpp Initialize (non-null key pointers)
Initialize(i, k) ==
    /\ call = Idle
    /\ graph' = [graph EXCEPT ![i].publicKey = k, ![i].secretKey = k]
    /\ ret' = [op |-> "Initialize", inst |-> i, value |-> TRUE]
    /\ nOps' = Counted(i)
    /\ UNCHANGED << path, solution, call, mined >>

\* qyra.cpp EnableParallelDFS -> graph.cpp SetNumThreads; numCores is uint8_t
EnableParallelDFS(i) ==
    /\ call = Idle
    /\ LET numCores == NumCores % 256
       IN /\ numCores > 0 /\ numCores <= NumCores
          /\ graph' = [graph EXCEPT ![i].nThreads = numCores]
    /\ ret' = [op |-> "EnableParallelDFS", inst |-> i]
    /\ nOps' = Counted(i)
    /\ UNCHANGED << path, solution, call, mined >>

\* qyra.cpp SetHeader -> graph.cpp SetHeader
SetHeader(i, vch) ==
    /\ call = Idle
    /\ graph' = [graph EXCEPT ![i].header = vch]
    /\ ret' = [op |-> "SetHeader", inst |-> i]
    /\ nOps' = Counted(i)
    /\ UNCHANGED << path, solution, call, mined >>

\* qyra.cpp SetNonce -> graph.cpp SetNonce
SetNonce(i, vch) ==
    /\ call = Idle
    /\ graph' = [graph EXCEPT ![i].nonce = vch]
    /\ ret' = [op |-> "SetNonce", inst |-> i]
    /\ nOps' = Counted(i)
    /\ UNCHANGED << path, solution, call, mined >>

\* path.cpp FindDFS lines 199-240: clear nodes, start the workers; cands[t]
\* lists the leaf paths worker t will compare (the matrix is read-only here)
StartFindDFS(i, frame) ==
    /\ path' = [path EXCEPT ![i] = << >>]
    /\ call' = frame @@ [inst |-> i, longestPath |-> << >>,
                         cands |-> [t \in 0..(graph'[i].nThreads - 1) |->
                                      WorkerCandidates(graph'[i].adjacencyMatrix, t,
                                                       graph'[i].nThreads)],
                         pos |-> [t \in 0..(graph'[i].nThreads - 1) |-> 0]]

\* qyra.cpp Mine up to the start of FindDFS
MineBegin(i, coin, ivRand, kemOk) ==
    /\ call = Idle
    /\ nOps' = Counted(i)
    /\ LET gen == Generate(graph[i], coin, ivRand, kemOk)
       IN /\ graph' = [graph EXCEPT ![i] = gen.g]
          /\ IF gen.ok
             THEN /\ StartFindDFS(i, [op |-> "Mine"])
                  /\ UNCHANGED ret
             ELSE /\ ret' = [op |-> "Mine", inst |-> i, value |-> FALSE]
                  /\ UNCHANGED << path, call >>
    /\ UNCHANGED << solution, mined >>

\* index of the first path after position pos that the comparison under the
\* mutex stores in place of longest (one that is longer), or Len(cands) + 1
\* when there is none
NextLonger(cands, pos, longest) ==
    LET later == {k \in (pos + 1)..Len(cands) :
                    CompareAndStore(longest, cands[k]) # longest}
    IN IF later = {} THEN Len(cands) + 1
       ELSE CHOOSE k \in later : \A m \in later : k <= m

\* one worker runs on to its next leaf path that is longer than the shared
\* longest path and stores it under the mutex; the comparisons before it
\* leave the shared path as it is (its length never decreases), so they are
\* part of the same step; without a longer path the worker runs to its end
WorkerStep(t) ==
    /\ call # Idle
    /\ t \in DOMAIN call.pos
    /\ LET cands == call.cands[t]
           k == NextLonger(cands, call.pos[t], call.longestPath)
       IN /\ call.pos[t] < Len(cands)
          /\ call' = [call EXCEPT
                        !.longestPath = IF k <= Len(cands)
                                        THEN CompareAndStore(@, cands[k]) ELSE @,
                        !.pos[t] = Min(k, Len(cands))]
    /\ UNCHANGED << graph, path, solution, ret, mined, nOps >>

\* faulty variant: the caller goes on once one worker has ended
AllJoinedAny ==
    \E t \in DOMAIN call.pos : call.pos[t] = Len(call.cands[t])

\* every worker has run through its node range
AllJoined ==
    \A t \in DOMAIN call.pos : call.pos[t] = Len(call.cands[t])

\* path.cpp FindDFS lines 243-259 and the rest of qyra.cpp Mine
MineEnd ==
    /\ call # Idle /\ call.op = "Mine"
    /\ AllJoined
    /\ LET i == call.inst
           fin == MineFinish(graph[i], call.longestPath, solution[i])
       IN /\ path' = [path EXCEPT ![i] = call.longestPath]
          /\ solution' = [solution EXCEPT ![i] = fin.sol]
          /\ ret' = [op |-> "Mine", inst |-> i, value |-> fin.ok]
          /\ mined' = IF fin.ok
                      THEN [mined EXCEPT ![i] =
                              [ok |-> TRUE, header |-> graph[i].header,
                               nonce |-> graph[i].nonce, key |-> graph[i].publicKey,
                               nThreads |-> graph[i].nThreads]]
                      ELSE mined
    /\ call' = Idle
    /\ UNCHANGED << graph, nOps >>

\* qyra.cpp Validate up to the start of FindDFS in CPath::Validate; the
\* input is described by in, its bytes are vch
ValidateBegin(i, in, vch) ==
    /\ call = Idle
    /\ nOps' = Counted(i)
    /\ IF Len(vch) < SOLUTION_SIZE
       THEN /\ ret' = [op |-> "Validate", inst |-> i, in |-> in, value |-> FALSE]
            /\ UNCHANGED << graph, path, call >>
       ELSE LET parts == SplitSolution(vch)
                gv == GraphValidate(graph[i], parts.graphData)
            IN /\ graph' = [graph EXCEPT ![i] = gv.g]
               /\ IF gv.ok
                  THEN /\ StartFindDFS(i, [op |-> "Validate", in |-> in,
                                           hash |-> parts.pathHash])
                       /\ UNCHANGED ret
                  ELSE /\ ret' = [op |-> "Validate", inst |-> i, in |-> in,
                                  value |-> FALSE]
                       /\ UNCHANGED << path, call >>
    /\ UNCHANGED << solution, mined >>

\* path.cpp FindDFS lines 243-259 and CPath::Validate lines 104-111
ValidateEnd ==
    /\ call # Idle /\ call.op = "Validate"
    /\ AllJoined
    /\ LET i == call.inst
       IN /\ path' = [path EXCEPT ![i] = call.longestPath]
          /\ ret' = [op |-> "Validate", inst |-> i, in |-> call.in,
                     value |-> (GetHash(call.longestPath) = call.hash)]
    /\ call' = Idle
    /\ UNCHANGED << graph, solution, mined, nOps >>

\* ------------------------------------------------------------- the callers
\* Validate is passed the bytes stored by instance A
Stored == [kind |-> "stored"]

\* the last call was a validation of bytes other than the stored solution
\* (tampered or resized); it ends a behaviour
Closed == ret.op = "Validate" /\ ret.in.kind # "stored"

\* the miner sets its instance up with the sequence of the MineSolution
\* test (Initialize, EnableParallelDFS or not, SetHeader, SetNonce), then
\* makes at most MaxOps calls in any order; it stops once the validator has
\* started
Started(i) == graph[i].publicKey # UnsetPublicKey
MinerCan == ~Started("B") /\ ~Closed
MinerReady == MinerCan /\ Configured("A") /\ nOps < MaxOps

MinerInitialize ==
    \E k \in KeyIds : MinerCan /\ ~Started("A") /\ Initialize("A", k)
MinerEnableParallelDFS ==
    /\ MinerCan
    /\ \/ ret.op = "Initialize"
       \/ MinerReady
    /\ EnableParallelDFS("A")
MinerSetHeader ==
    \E h \in Headers :
        /\ MinerCan
        /\ \/ ret.op \in {"Initialize", "EnableParallelDFS"}
           \/ MinerReady
        /\ SetHeader("A", h)
MinerSetNonce ==
    \E n \in Nonces :
        /\ MinerCan
        /\ \/ ret.op = "SetHeader" /\ ~Configured("A")
           \/ MinerReady
        /\ SetNonce("A", n)
MinerMine ==
    \E d \in 1..NumDraws : MinerReady /\ MineBegin("A", d, DrawIV(d), TRUE)
MinerMineKemFailure == MinerReady /\ MineBegin("A", 1, RefIV, FALSE)
MinerValidate ==
    /\ MinerReady
    /\ solution["A"].solution # << >>
    /\ ValidateBegin("A", Stored, solution["A"].solution)

\* the validator runs the sequence of the ValidateSolution test on B once A
\* has returned true from Mine: Initialize, EnableParallelDFS or not,
\* SetHeader, SetNonce, Validate with the bytes copied from A
ValidatorInitialize ==
    \E k \in KeyIds :
        /\ ~Started("B") /\ ~Closed
        /\ ret.op = "Mine" /\ ret.value
        /\ Initialize("B", k)
ValidatorEnableParallelDFS ==
    /\ ret.op = "Initialize" /\ ret.inst = "B"
    /\ EnableParallelDFS("B")
ValidatorSetHeader ==
    \E h \in Headers :
        /\ ret.op \in {"Initialize", "EnableParallelDFS"} /\ ret.inst = "B"
        /\ SetHeader("B", h)
ValidatorSetNonce ==
    \E n \in Nonces :
        /\ ret.op = "SetHeader" /\ ret.inst = "B"
        /\ SetNonce("B", n)
ValidatorValidate ==
    /\ ret.op = "SetNonce" /\ ret.inst = "B"
    /\ ValidateBegin("B", Stored, solution["A"].solution)

Next ==
    \/ MinerInitialize
    \/ MinerEnableParallelDFS
    \/ MinerSetHeader
    \/ MinerSetNonce
    \/ MinerMine
    \/ MinerMineKemFailure
    \/ MinerValidate
    \/ ValidatorInitialize
    \/ ValidatorEnableParallelDFS
    \/ ValidatorSetHeader
    \/ ValidatorSetNonce
    \/ ValidatorValidate
    \/ \E t \in 0..(NumCores - 1) : WorkerStep(t)
    \/ MineEnd
    \/ ValidateEnd

Spec == Init /\ [][Next]_vars

\* ---------------------------------------------------------------- tampering
\* the four fields of a solution as byte ranges [first, last)
Fields ==
    << [first |-> 0, last |-> ENC_SIZE],
       [first |-> ENC_SIZE, last |-> ENC_SIZE + IV_SIZE],
       [first |-> ENC_SIZE + IV_SIZE, last |-> TOTAL_SIZE],
       [first |-> TOTAL_SIZE, last |-> SOLUTION_SIZE] >>

\* the byte offsets and the bits that are flipped
TamperOffsets ==
    UNION {{Fields[f].first + k, Fields[f].last - 1 - k} :
             f \in DOMAIN Fields, k \in 0..(TamperSpan - 1)}
TamperBits == {0, 7}

Tampered(pos, b) == [kind |-> "tampered", pos |-> pos, bit |-> b]

\* right after a Mine that returned true the miner passes the solution with
\* one bit flipped to Validate
MinerValidateTampered ==
    \E pos \in TamperOffsets, b \in TamperBits :
        /\ MinerReady
        /\ ret.op = "Mine" /\ ret.value
        /\ ValidateBegin("A", Tampered(pos, b), FlipAt(solution["A"].solution, pos, b))

\* the validator, set up with the miner's key, header and nonce, passes the
\* solution with one bit flipped to Validate
ValidatorValidateTampered ==
    \E pos \in TamperOffsets, b \in TamperBits :
        /\ ret.op = "SetNonce" /\ ret.inst = "B"
        /\ mined["A"].ok
        /\ graph["B"].header = mined["A"].header
        /\ graph["B"].nonce = mined["A"].nonce
        /\ graph["B"].secretKey = mined["A"].key
        /\ ValidateBegin("B", Tampered(pos, b), FlipAt(solution["A"].solution, pos, b))

NextTamper ==
    \/ Next
    \/ MinerValidateTampered
    \/ ValidatorValidateTampered

SpecTamper == Init /\ [][NextTamper]_vars

\* ----------------------------------------------------------------- resizing
\* std::vector::resize: the first len bytes, or the bytes followed by 255s
Resize(vch, len) ==
    IF len <= Len(vch) THEN SubSeq(vch, 1, len)
    ELSE vch \o Fill(len - Len(vch), 255)

\* the lengths of the inputs: none, the graph part alone, and up to
\* AppendLen bytes less or more than a solution
ResizedLengths ==
    ({0, TOTAL_SIZE} \cup ((SOLUTION_SIZE - AppendLen)..(SOLUTION_SIZE + AppendLen)))
        \ {SOLUTION_SIZE}

Resized(len) == [kind |-> "resized", len |-> len]

\* right after a Mine that returned true the miner passes the solution, cut
\* or with bytes appended, to Validate
MinerValidateResized ==
    \E len \in ResizedLengths :
        /\ MinerReady
        /\ ret.op = "Mine" /\ ret.value
        /\ ValidateBegin("A", Resized(len), Resize(solution["A"].solution, len))

\* the validator, set up with the miner's key, header and nonce, does so
ValidatorValidateResized ==
    \E len \in ResizedLengths :
        /\ ret.op = "SetNonce" /\ ret.inst = "B"
        /\ mined["A"].ok
        /\ graph["B"].header = mined["A"].header
        /\ graph["B"].nonce = mined["A"].nonce
        /\ graph["B"].secretKey = mined["A"].key
        /\ ValidateBegin("B", Resized(len), Resize(solution["A"].solution, len))

NextResize ==
    \/ Next
    \/ MinerValidateResized
    \/ ValidatorValidateResized

SpecResize == Init /\ [][NextResize]_vars

\* ------------------------------------------------------------ initialising again
\* the miner calls Initialize on its configured instance, as one of its calls
MinerInitializeAgain ==
    \E k \in KeyIds : MinerReady /\ Initialize("A", k)

NextAgain ==
    \/ Next
    \/ MinerInitializeAgain

SpecAgain == Init /\ [][NextAgain]_vars

\* ------------------------------------------------------------------ forging
Forged == [kind |-> "forged"]

\* the graph part instance A generated, followed by the hash of no nodes
ForgedSolution ==
    Assemble([enc |-> graph["A"].enc, iv |-> graph["A"].iv,
              ciphertext |-> graph["A"].ciphertext, hash |-> GetHash(<< >>)])

\* right after a Mine that generated a graph and found no path in it, the
\* miner passes these bytes to Validate
MinerValidateForged ==
    /\ MinerReady
    /\ ret.op = "Mine" /\ ~ret.value
    /\ Len(graph["A"].enc) = ENC_SIZE
    /\ path["A"] = << >>
    /\ ValidateBegin("A", Forged, ForgedSolution)

NextForge ==
    \/ Next
    \/ MinerValidateForged

SpecForge == Init /\ [][NextForge]_vars

\* ------------------------------------------------------- headers of any length
\* header lengths other than HEADER_LEN: none, one that fills the last
\* cipher block but one, and one that needs a cipher block more
OtherHeaderLengths == {0, HEADER_LEN - 16, HEADER_LEN + 16}

\* a header of n bytes
HeaderOfLength(n) == Fill(n, 0)

\* the miner sets a header of such a length when it sets its instance up
MinerSetHeaderOfLength ==
    \E n \in OtherHeaderLengths :
        /\ MinerCan
        /\ ret.op \in {"Initialize", "EnableParallelDFS"}
        /\ SetHeader("A", HeaderOfLength(n))

NextLengths ==
    \/ Next
    \/ MinerSetHeaderOfLength

SpecLengths == Init /\ [][NextLengths]_vars

\* ------------------------------------------------- the derivation on its own
\* UpdateGraphFromData applied to every byte sequence of DeriveLen bytes
\* over DeriveBytes; the 12-bit values these give collide often
DeriveBytes == {0, 1, 16}
DeriveInputs == [1..DeriveLen -> DeriveBytes]
\* the sequences applied to a matrix that holds edges of an earlier one
ReloadInputs == {Fill(DeriveLen, b) : b \in DeriveBytes}

InitDerive ==
    /\ graph \in {[i \in Instances |->
                     IF i = "A" THEN [NewGraph EXCEPT !.enc = data] ELSE NewGraph] :
                  data \in DeriveInputs}
    /\ path = [i \in Instances |-> << >>]
    /\ solution = [i \in Instances |-> NewSolution]
    /\ call = Idle
    /\ ret = [op |-> "new"]
    /\ mined = [i \in Instances |-> NoMine]
    /\ nOps = 0

\* graph.cpp UpdateGraphFromData(enc) on the matrix as it is
DeriveUpdate ==
    /\ ret.op \in {"new", "load"}
    /\ LET u == UpdateGraphFromData(graph["A"].adjacencyMatrix, graph["A"].enc)
       IN /\ graph' = [graph EXCEPT !["A"].adjacencyMatrix = u.adj]
          /\ ret' = [op |-> "UpdateGraphFromData", inst |-> "A", value |-> u.ok]
    /\ UNCHANGED << path, solution, call, mined, nOps >>

\* once, other enc bytes are put in place for a second derivation
DeriveLoad ==
    \E data \in ReloadInputs :
        /\ ret.op = "UpdateGraphFromData" /\ nOps = 0
        /\ graph' = [graph EXCEPT !["A"].enc = data]
        /\ ret' = [op |-> "load"]
        /\ nOps' = 1
        /\ UNCHANGED << path, solution, call, mined >>

NextDerive ==
    \/ DeriveUpdate
    \/ DeriveLoad

SpecDerive == InitDerive /\ [][NextDerive]_vars

\* ------------------------------------------------------- Pack12 on its own
\* Pack12 called with every byte sequence of at most PackLen bytes over
\* PackBytes (bytes with either, both or no nibble zero)
PackBytes == {0, 15, 16, 171, 255}
PackInputs == UNION {[1..n -> PackBytes] : n \in 0..PackLen}

InitPack ==
    /\ graph = [i \in Instances |-> NewGraph]
    /\ path = [i \in Instances |-> << >>]
    /\ solution = [i \in Instances |-> NewSolution]
    /\ call \in {[op |-> "Pack12", input |-> B] : B \in PackInputs}
    /\ ret = [op |-> "new"]
    /\ mined = [i \in Instances |-> NoMine]
    /\ nOps = 0

\* utils.cpp Pack12 returns (or throws)
PackReturn ==
    /\ call # Idle /\ call.op = "Pack12"
    /\ ret' = [op |-> "Pack12", input |-> call.input,
               threw |-> Pack12Throws(call.input),
               output |-> IF Pack12Throws(call.input) THEN << >> ELSE Pack12(call.input)]
    /\ call' = Idle
    /\ UNCHANGED << graph, path, solution, mined, nOps >>

NextPack == PackReturn

SpecPack == InitPack /\ [][NextPack]_vars

\* --------------------------------------------------- the path search on its own
\* UpdateGraphFromData on the bytes that pack to PathLen 12-bit values over
\* PathNodes (a zero is appended to an odd number of values), or AddEdge
\* calls of the owner of a graph that holds no bytes; then FindDFS, IsValid
\* and CPath::Validate on the matrix, with 1..NumCores workers
PathNodes == {0, 1, 2000, 3000}
PathValues == [1..PathLen -> PathNodes]
PathInputs == {Unpack12(vals \o Fill(Len(vals) % 2, 0)) : vals \in PathValues}

InitPath ==
    /\ graph \in {[i \in Instances |->
                     IF i = "A" THEN [NewGraph EXCEPT !.enc = data, !.nThreads = n]
                     ELSE NewGraph] :
                  data \in PathInputs \cup {<< >>}, n \in 1..NumCores}
    /\ path = [i \in Instances |-> << >>]
    /\ solution = [i \in Instances |-> NewSolution]
    /\ call = Idle
    /\ ret = [op |-> "new"]
    /\ mined = [i \in Instances |-> NoMine]
    /\ nOps = 0

\* graph.cpp UpdateGraphFromData(enc)
PathUpdate ==
    /\ call = Idle /\ ret.op = "new"
    /\ LET u == UpdateGraphFromData(graph["A"].adjacencyMatrix, graph["A"].enc)
       IN /\ graph' = [graph EXCEPT !["A"].adjacencyMatrix = u.adj]
          /\ ret' = [op |-> "UpdateGraphFromData", inst |-> "A", value |-> u.ok]
    /\ UNCHANGED << path, solution, call, mined, nOps >>

\* the arguments of AddEdge: the nodes, and an index out of range
EdgeArgs == PathNodes \cup {MAX_NODES}

\* graph.cpp AddEdge(from, to); whether row from held a bit when it was
\* called is noted with the return value
PathAddEdge(from, to) ==
    /\ call = Idle /\ ret.op \in {"new", "AddEdge"}
    /\ graph["A"].enc = << >>
    /\ LET r == AddEdge(graph["A"].adjacencyMatrix, from, to)
       IN /\ graph' = [graph EXCEPT !["A"].adjacencyMatrix = r.adj]
          /\ ret' = [op |-> "AddEdge", inst |-> "A", value |-> r.ok,
                     onNonEmptyRow |-> Row(graph["A"].adjacencyMatrix, from) # {}]
    /\ UNCHANGED << path, solution, call, mined, nOps >>

\* path.cpp FindDFS is called
PathFindDFS ==
    /\ call = Idle /\ ret.op \in {"UpdateGraphFromData", "AddEdge"}
    /\ UNCHANGED graph
    /\ StartFindDFS("A", [op |-> "FindDFS"])
    /\ UNCHANGED << solution, ret, mined, nOps >>

\* path.cpp FindDFS lines 241-259: join, store and return the longest path
PathFindDFSEnd ==
    /\ call # Idle /\ call.op = "FindDFS"
    /\ AllJoined
    /\ path' = [path EXCEPT !["A"] = call.longestPath]
    /\ ret' = [op |-> "FindDFS", inst |-> "A", nodes |-> call.longestPath]
    /\ call' = Idle
    /\ UNCHANGED << graph, solution, mined, nOps >>

\* path.cpp IsValid on the stored nodes
PathIsValid ==
    /\ call = Idle /\ ret.op = "FindDFS"
    /\ ret' = [op |-> "IsValid", inst |-> "A",
               value |-> IsValid(path["A"], graph["A"].adjacencyMatrix)]
    /\ UNCHANGED << graph, path, solution, call, mined, nOps >>

\* the expected hash values passed to CPath::Validate: that of the longest
\* path with the smallest start node, that of no nodes, and one that is
\* the hash of neither
ExpectedHashes(adj) ==
    {GetHash(FindDFSSingleThread(adj)), GetHash(<< >>), Fill(HASH_SIZE, 255)}

\* path.cpp Validate is called: lines 94-101, up to the start of FindDFS
PathValidate ==
    \E h \in ExpectedHashes(graph["A"].adjacencyMatrix) :
        /\ call = Idle /\ ret.op = "IsValid"
        /\ UNCHANGED graph
        /\ StartFindDFS("A", [op |-> "PathValidate", hash |-> h])
        /\ UNCHANGED << solution, ret, mined, nOps >>

\* path.cpp FindDFS lines 241-259 and Validate lines 104-111
PathValidateEnd ==
    /\ call # Idle /\ call.op = "PathValidate"
    /\ AllJoined
    /\ path' = [path EXCEPT !["A"] = call.longestPath]
    /\ ret' = [op |-> "PathValidate", inst |-> "A", hash |-> call.hash,
               value |-> (GetHash(call.longestPath) = call.hash)]
    /\ call' = Idle
    /\ UNCHANGED << graph, solution, mined, nOps >>

NextPath ==
    \/ PathUpdate
    \/ \E from \in EdgeArgs, to \in EdgeArgs : PathAddEdge(from, to)
    \/ PathFindDFS
    \/ \E t \in 0..(NumCores - 1) : WorkerStep(t)
    \/ PathFindDFSEnd
    \/ PathIsValid
    \/ PathValidate
    \/ PathValidateEnd

SpecPath == InitPath /\ [][NextPath]_vars

\* the steps of a FindDFS that is running: those of its workers and its end
FindDFSRuns ==
    \/ \E t \in 0..(NumCores - 1) : WorkerStep(t)
    \/ PathFindDFSEnd
    \/ PathValidateEnd

\* the graphs without bytes, whose owner builds the matrix with AddEdge
InitBuilt == InitPath /\ graph["A"].enc = << >>

\* the workers are threads of their own and the mutex is held only for the
\* comparison: a step of a running FindDFS that can be taken is taken in
\* the end
SpecPathFair == InitBuilt /\ [][NextPath]_vars /\ WF_vars(FindDFSRuns)

\* ------------------------------------------------ the node ranges on their own
\* the thread counts: the small ones, and those around the number of nodes
ThreadCounts ==
    (1..MaxThreads) \cup {MAX_NODES - 1, MAX_NODES, MAX_NODES + 1, MAX_NODES + 904}

InitPartition ==
    /\ graph = [i \in Instances |-> NewGraph]
    /\ path = [i \in Instances |-> << >>]
    /\ solution = [i \in Instances |-> NewSolution]
    /\ call \in {[op |-> "Partition", nThreads |-> n] : n \in ThreadCounts}
    /\ ret = [op |-> "new"]
    /\ mined = [i \in Instances |-> NoMine]
    /\ nOps = 0

\* path.cpp FindDFS lines 213-224: the n workers compute their ranges
PartitionReturn ==
    /\ call # Idle /\ call.op = "Partition"
    /\ ret' = [op |-> "Partition", nThreads |-> call.nThreads,
               startNode |-> [t \in 0..(call.nThreads - 1) |->
                                StartNode(t, call.nThreads)],
               endNode |-> [t \in 0..(call.nThreads - 1) |->
                              EndNode(t, call.nThreads)]]
    /\ call' = Idle
    /\ UNCHANGED << graph, path, solution, mined, nOps >>

NextPartition == PartitionReturn

SpecPartition == InitPartition /\ [][NextPartition]_vars

\* -------------------------------------------------- the core count on its own
\* the numbers of cores hardware_concurrency() reports: the small ones, and
\* those around the range of an 8-bit integer
CoreCounts == (1..MaxThreads) \cup {255, 256, 257, 300, 512}

\* qyra.cpp EnableParallelDFS on a platform with h cores, then graph.cpp
\* SetNumThreads: numCores is a uint8_t; a failed assertion ends the program
\* unless the build defines NDEBUG
EnableParallelDFSOn(h, ndebug) ==
    /\ call = Idle /\ ret.op = "new"
    /\ LET numCores == h % 256
           asserted == numCores > 0 /\ numCores <= h
       IN /\ graph' = IF asserted \/ ndebug
                      THEN [graph EXCEPT !["A"].nThreads = numCores]
                      ELSE graph
          /\ ret' = [op |-> "EnableParallelDFS", inst |-> "A", cores |-> h,
                     asserted |-> asserted, aborted |-> ~asserted /\ ~ndebug]
    /\ UNCHANGED << path, solution, call, mined, nOps >>

NextCores == \E h \in CoreCounts, ndebug \in BOOLEAN : EnableParallelDFSOn(h, ndebug)

SpecCores == Init /\ [][NextCores]_vars

\* ------------------------------------------------------ the stream on its own
\* a CStream over a buffer of at most StreamLen bytes, or of TOTAL_SIZE bytes
\* as in CGraph::Validate, read with operator>> in any order; byte k of a
\* buffer is k % 256
StreamLen == 12
StreamBuffers ==
    {[k \in 1..n |-> k % 256] : n \in (0..StreamLen) \cup {TOTAL_SIZE}}
\* sizes of the vectors that are read into
ReadSizes == {0, 1, 3, PTR_SIZE, IV_SIZE, ENC_SIZE}

InitStream ==
    /\ graph = [i \in Instances |-> NewGraph]
    /\ path = [i \in Instances |-> << >>]
    /\ solution = [i \in Instances |-> NewSolution]
    /\ call \in {[op |-> "stream", s |-> StreamOf(input)] : input \in StreamBuffers}
    /\ ret = [op |-> "new"]
    /\ mined = [i \in Instances |-> NoMine]
    /\ nOps = 0

\* stream.h operator>>(std::vector&) with output.size() = n
StreamReadVecStep(n) ==
    /\ call.op = "stream"
    /\ LET r == StreamReadVec(call.s, n)
       IN /\ call' = [call EXCEPT !.s = r.s]
          /\ ret' = [op |-> "ReadVec", n |-> n, ok |-> r.ok, out |-> r.out]
    /\ UNCHANGED << graph, path, solution, mined, nOps >>

\* stream.h operator>>(uint8_t*); out is what is copied to the pointer
StreamReadRawStep ==
    /\ call.op = "stream"
    /\ LET r == StreamReadRaw(call.s)
       IN /\ call' = [call EXCEPT !.s = r.s]
          /\ ret' = [op |-> "ReadRaw", n |-> PTR_SIZE, ok |-> r.ok, out |-> r.out]
    /\ UNCHANGED << graph, path, solution, mined, nOps >>

NextStream ==
    \/ \E n \in ReadSizes : StreamReadVecStep(n)
    \/ StreamReadRawStep

SpecStream == InitStream /\ [][NextStream]_vars

\* ------------------------------------------------------------------ claims
\* the last call was op, and no call has begun since it returned
Returned(op) == call = Idle /\ ret.op = op

\* the bytes Validate was given are the solution instance A stored, and the
\* validating instance i holds the header, nonce and key A mined it with
SameInputs(i) ==
    /\ mined["A"].ok
    /\ graph[i].header = mined["A"].header
    /\ graph[i].nonce = mined["A"].nonce
    /\ graph[i].secretKey = mined["A"].key

\* C1: when Mine has returned true on an instance and Validate is called on
\* the same instance with the stored solution, header and nonce as they were,
\* Validate returns true, whatever the thread count and the order in which
\* the DFS workers ran in the two calls
C1_RoundTrip ==
    (Returned("Validate") /\ ret.inst = "A" /\ ret.in.kind = "stored" /\ SameInputs("A"))
        => ret.value

\* C2: a solution mined by instance A is accepted by Validate on instance B
\* when B holds the same secret key, header and nonce, whatever the thread
\* counts of A and B
C2_CrossInstance ==
    (Returned("Validate") /\ ret.inst = "B" /\ ret.in.kind = "stored" /\ SameInputs("B"))
        => ret.value

\* C3: whatever the thread count and the order in which the workers ran, the
\* node sequence FindDFS stores is the one a single thread finds
C3_ParallelSameAsSingle ==
    [][(MineEnd \/ ValidateEnd)
         => path'[call.inst] = FindDFSSingleThread(graph[call.inst].adjacencyMatrix)]_vars

\* C4: when Mine returns true with a 108-byte header and a 32-byte nonce, the
\* stored solution has 1280 bytes: enc at [0,144), iv at [144,160), the KEM
\* ciphertext at [160,1248), the path hash at [1248,1280); enc decrypts under
\* the secret recovered from the KEM ciphertext and that iv to header || nonce
C4_SolutionLayout ==
    (/\ Returned("Mine") /\ ret.value
     /\ Len(graph[ret.inst].header) = HEADER_LEN
     /\ Len(graph[ret.inst].nonce) = NONCE_LEN)
        => LET S == solution[ret.inst].solution
               g == graph[ret.inst]
               enc == Slice(S, 0, ENC_SIZE)
               iv == Slice(S, ENC_SIZE, ENC_SIZE + IV_SIZE)
               ct == Slice(S, ENC_SIZE + IV_SIZE, TOTAL_SIZE)
               ss == RecoverSharedSecret(ct, g.secretKey)
               d == DecryptData(enc, ss.sharedSecret, iv)
           IN /\ Len(S) = SOLUTION_SIZE
              /\ enc = g.enc /\ iv = g.iv /\ ct = g.ciphertext
              /\ Slice(S, TOTAL_SIZE, SOLUTION_SIZE) = GetHash(path[ret.inst])
              /\ ss.ok /\ d.ok
              /\ d.message = g.header \o g.nonce

\* a Mine with parallel DFS has returned true
C4_Witness ==
    /\ Returned("Mine") /\ ret.value
    /\ graph[ret.inst].nThreads > 1
    /\ Len(path[ret.inst]) >= 2

\* the validating instance holds the miner's key, header and nonce, and the
\* bytes it was given are the stored solution with one bit flipped
TamperedInput ==
    /\ Returned("Validate") /\ ret.in.kind = "tampered"
    /\ SameInputs(ret.inst)

\* C5: Validate of a valid solution with one bit of its enc, iv, KEM
\* ciphertext or path hash field flipped returns false (same header, nonce
\* and secret key)
C5_TamperRejected == TamperedInput => ~ret.value

\* a flipped bit in the path hash: the graph was accepted, FindDFS ran and
\* the hash comparison rejected the solution
C5_Witness ==
    /\ TamperedInput
    /\ ret.in.pos >= TOTAL_SIZE
    /\ path[ret.inst] # << >>
    /\ ~ret.value

\* C6: a solution mined under header H and nonce N is rejected by Validate
\* on an instance whose header was set to another header H' (nonce N)
C6_WrongHeaderRejected ==
    (/\ Returned("Validate") /\ ret.in.kind = "stored"
     /\ mined["A"].ok
     /\ graph[ret.inst].header # mined["A"].header
     /\ graph[ret.inst].nonce = mined["A"].nonce)
        => ~ret.value

\* the miner has validated its own solution after changing the header
C6_Witness ==
    /\ Returned("Validate") /\ ret.inst = "A" /\ ret.in.kind = "stored"
    /\ mined["A"].ok
    /\ graph["A"].header # mined["A"].header
    /\ graph["A"].nonce = mined["A"].nonce
    /\ graph["A"].secretKey = mined["A"].key
    /\ ~ret.value

\* C7: when Mine returns false the stored solution is empty, whatever calls
\* came before it
C7_FailedMineLeavesNoSolution ==
    (Returned("Mine") /\ ~ret.value) => solution[ret.inst].solution = << >>

\* C8: the matrix the derivation produces has at most one bit set in every
\* row and no bit set on the diagonal
C8_OutDegreeAtMostOne ==
    \A i \in Instances :
        LET adj == graph[i].adjacencyMatrix
        IN /\ \A e \in adj : e[1] # e[2]
           /\ \A e1, e2 \in adj : e1[1] = e2[1] => e1 = e2

\* a derivation from bytes in which a node that already has its edge comes
\* up again before another node has left two edges in the matrix
C8_Witness ==
    /\ ret.op = "UpdateGraphFromData" /\ ret.value
    /\ LET idx == Pack12(graph["A"].enc)
       IN \E j, k \in DOMAIN idx :
             j + 1 < k /\ k < Len(idx) /\ idx[j] = idx[k]
             /\ idx[j + 1] # idx[k + 1] /\ idx[j] # idx[j + 1] /\ idx[k] # idx[k + 1]
    /\ Cardinality(graph["A"].adjacencyMatrix) >= 2

\* C9: each consecutive pair of the sequence FindDFS stores is an edge of
\* the graph, and IsValid holds of the sequence when it is not empty
C9_PathFollowsEdges ==
    [][(MineEnd \/ ValidateEnd)
         => LET nodes == path'[call.inst]
                adj == graph'[call.inst].adjacencyMatrix
            IN /\ \A k \in 1..(Len(nodes) - 1) : << nodes[k], nodes[k + 1] >> \in adj
               /\ nodes # << >> => IsValid(nodes, adj)]_vars

\* a parallel FindDFS has stored a sequence with an edge in it
C9_Witness ==
    /\ (Returned("Mine") \/ Returned("Validate"))
    /\ graph[ret.inst].nThreads > 1
    /\ Len(path[ret.inst]) >= 2
    /\ IsValid(path[ret.inst], graph[ret.inst].adjacencyMatrix)

\* the matrix of instance i is what the derivation gives for its enc bytes
\* on a matrix without edges
DerivedFromEnc(i) ==
    graph[i].adjacencyMatrix = UpdateGraphFromData({}, graph[i].enc).adj

\* C10: after a successful Generate or graph Validate (FindDFS is running, or
\* the call has returned true) the matrix is a function of the enc bytes
\* alone, whatever an earlier call left in the matrix
C10_DerivationPure ==
    /\ call # Idle => DerivedFromEnc(call.inst)
    /\ ((Returned("Mine") \/ Returned("Validate")) /\ ret.value) => DerivedFromEnc(ret.inst)

\* graph Validate has succeeded on the instance that mined, whose matrix
\* held the edges of the Mine call when Validate began
C10_Witness ==
    /\ Returned("Validate") /\ ret.value /\ ret.inst = "A"
    /\ graph["A"].adjacencyMatrix # {}

\* byte i (from 1) of B zero-padded to a multiple of 3 bytes
PaddedByte(B, i) == IF i <= Len(B) THEN B[i] ELSE 0
CeilDiv3(n) == (n + 2) \div 3

C15_EmptyInputThrows ==
    (Returned("Pack12") /\ ret.input = << >>) => ret.threw

\* C12: a Mine or Validate call that writes enc, iv or the KEM ciphertext of
\* an instance leaves no matrix and no node sequence of an earlier call
\* beside them: the matrix is empty or derived from the enc now stored, and
\* the node sequence has been cleared
WritesCrypto(i) ==
    \/ graph'[i].enc # graph[i].enc
    \/ graph'[i].iv # graph[i].iv
    \/ graph'[i].ciphertext # graph[i].ciphertext

C12_ResetBeforeWrite ==
    [][\A i \in Instances :
          WritesCrypto(i) =>
              /\ \/ graph'[i].adjacencyMatrix = {}
                 \/ graph'[i].adjacencyMatrix =
                        UpdateGraphFromData({}, graph'[i].enc).adj
              /\ path'[i] = << >>]_vars

\* the matrix has no non-empty row
EmptyGraph(i) == graph[i].adjacencyMatrix = {}

\* C13: on a matrix without a non-empty row FindDFS stores and returns the
\* empty sequence, the IsValid that follows returns false, and
\* CPath::Validate returns false whatever hash it is given
C13_EmptyGraphRejected ==
    EmptyGraph("A") =>
        /\ Returned("FindDFS") => ret.nodes = << >> /\ path["A"] = << >>
        /\ Returned("IsValid") => ~ret.value
        /\ Returned("PathValidate") => ~ret.value

\* the bytes a Validate call was given, from its description
InputBytes(in) ==
    IF in.kind = "resized" THEN Resize(solution["A"].solution, in.len)
    ELSE solution["A"].solution

\* this step is the entry of a Validate call on instance i with input in:
\* the call either returns at once or starts its path search
ValidateCalled(i, in) ==
    /\ call = Idle
    /\ \/ call' # Idle /\ call'.op = "Validate" /\ call'.inst = i /\ call'.in = in
       \/ call' = Idle /\ ret'.op = "Validate" /\ ret'.inst = i /\ ret'.in = in

Descriptions == {Stored} \cup {Resized(len) : len \in ResizedLengths}

RECURSIVE WalkLength(_, _, _)
WalkLength(adj, node, seen) ==
    IF Row(adj, node) = {} THEN 1
    ELSE LET next == CHOOSE x \in Row(adj, node) : TRUE
         IN IF next \in seen \cup {node} THEN 0
            ELSE LET rest == WalkLength(adj, next, seen \cup {node})
                 IN IF rest = 0 THEN 0 ELSE rest + 1

\* the largest such number over the nodes with a non-empty row
MaxWalk(adj) ==
    LET lengths == {WalkLength(adj, e[1], {}) : e \in adj} \cup {0}
    IN CHOOSE m \in lengths : \A k \in lengths : k <= m

OutDegreeAtMostOne(adj) == \A e1 \in adj, e2 \in adj : e1[1] = e2[1] => e1 = e2

\* C16: whatever the number of workers and their interleaving, the sequence
\* FindDFS stores has as many nodes as the longest walk from a node with a
\* non-empty row to a node with an empty row (none if there is no such walk)
C16_LengthOptimal ==
    (/\ call = Idle
     /\ ret.op \in {"FindDFS", "IsValid", "PathValidate"}
     /\ OutDegreeAtMostOne(graph["A"].adjacencyMatrix))
        => Len(path["A"]) = MaxWalk(graph["A"].adjacencyMatrix)

\* two workers or more, the longest walk starts in the range of a later
\* worker and a shorter one in the range of the first
C16_Witness ==
    /\ Returned("FindDFS")
    /\ graph["A"].nThreads >= 2
    /\ Len(path["A"]) >= 3
    /\ path["A"][1] >= NodesPerThread(graph["A"].nThreads)
    /\ \E e \in graph["A"].adjacencyMatrix :
          e[1] < NodesPerThread(graph["A"].nThreads)

\* the derivation rule as specified, for the pair (V[i], V[i + 1]): skip if
\* from = to, if to is in visited or if row from is non-empty; otherwise set
\* the bit and insert from into visited
SpecifiedStep(V, i, st) ==
    LET from == V[i]
        to == V[i + 1]
    IN IF from = to THEN st
       ELSE IF to \in st.visited THEN st
       ELSE IF Row(st.adj, from) # {} THEN st
       ELSE [adj |-> st.adj \cup {<< from, to >>}, visited |-> st.visited \cup {from}]

RECURSIVE SpecifiedWalk(_, _, _, _)
SpecifiedWalk(V, lo, hi, st) ==
    IF lo > hi THEN st
    ELSE IF lo = hi THEN SpecifiedStep(V, lo, st)
    ELSE LET mid == (lo + hi) \div 2
         IN SpecifiedWalk(V, mid + 1, hi, SpecifiedWalk(V, lo, mid, st))

SpecifiedDerivation(enc) ==
    LET V == Pack12(enc)
    IN SpecifiedWalk(V, 1, Len(V) - 1, [adj |-> {}, visited |-> {}]).adj

\* C17: the matrix UpdateGraphFromData builds from enc is the matrix the
\* specified rule builds from it
C17_DerivationRefinesRule ==
    (Returned("UpdateGraphFromData") /\ ret.value)
        => graph["A"].adjacencyMatrix = SpecifiedDerivation(graph["A"].enc)

\* a pair reached AddEdge on a row that was already non-empty: its end node
\* never got an edge (so it was never in visited) and is not the bit of the
\* row of its start node
C17_Witness ==
    /\ Returned("UpdateGraphFromData") /\ ret.value
    /\ LET V == Pack12(graph["A"].enc)
           adj == graph["A"].adjacencyMatrix
       IN \E k \in 1..(Len(V) - 1) :
             /\ V[k] # V[k + 1]
             /\ Row(adj, V[k + 1]) = {}
             /\ Row(adj, V[k]) # {}
             /\ V[k + 1] \notin Row(adj, V[k])

\* the matrix after the first k pairs of one derivation pass over edges
MatrixAfter(edges, k) ==
    UpdateLoop(edges, 1, k, [ok |-> TRUE, adj |-> {}, visited |-> {}]).adj

Acyclic(adj) ==
    \A S \in SUBSET {e[1] : e \in adj} :
        S # {} => \E n \in S : Row(adj, n) \cap S = {}

\* C19: a matrix built by UpdateGraphFromData has no directed cycle, the
\* walk from each of its nodes with a non-empty row reaches a node with an
\* empty row, and FindDFS on it stores a non-empty sequence exactly if the
\* matrix has an edge
C19_DerivedAcyclic ==
    (call = Idle /\ graph["A"].enc # << >> /\ ret.op # "new") =>
        LET adj == graph["A"].adjacencyMatrix
        IN /\ Acyclic(adj)
           /\ \A e \in adj : WalkLength(adj, e[1], {}) > 0
           /\ ret.op \in {"FindDFS", "IsValid", "PathValidate"}
                => (path["A"] # << >> <=> adj # {})

\* FindDFS has returned a path on a derived matrix, and the derivation
\* skipped a pair because its end node was in visited: the start node of
\* the pair differs from the end node and has no edge
C19_Witness ==
    /\ Returned("FindDFS")
    /\ path["A"] # << >>
    /\ LET V == Pack12(graph["A"].enc)
           adj == graph["A"].adjacencyMatrix
       IN \E k \in 1..(Len(V) - 1) :
             /\ V[k] # V[k + 1]
             /\ Row(adj, V[k]) = {}
             /\ Row(adj, V[k + 1]) # {}

\* the nodes on the walk of len nodes from node
RECURSIVE WalkFrom(_, _, _)
WalkFrom(adj, node, len) ==
    IF len <= 1 THEN << node >>
    ELSE << node >> \o WalkFrom(adj, CHOOSE x \in Row(adj, node) : TRUE, len - 1)

\* the longest walk to a node with an empty row; of several, the one whose
\* start node has the smallest index
FirstLongestWalk(adj) ==
    LET longest == MaxWalk(adj)
        starts == {e[1] : e \in {x \in adj : WalkLength(adj, x[1], {}) = longest}}
    IN IF longest = 0 THEN << >>
       ELSE WalkFrom(adj, CHOOSE n \in starts : \A m \in starts : n <= m, longest)

\* C20: while FindDFS runs, the shared longest path changes only to a
\* strictly longer path; and the path a FindDFS with one worker stores is the
\* longest walk whose start node has the smallest index
C20_FirstLongestWins ==
    [][/\ (call # Idle /\ call' # Idle /\ call'.longestPath # call.longestPath)
            => Len(call'.longestPath) > Len(call.longestPath)
       /\ (call # Idle /\ call' = Idle /\ graph["A"].nThreads = 1)
            => path'["A"] = FirstLongestWalk(graph["A"].adjacencyMatrix)]_vars

\* one worker has stored a path although a walk of the same length starts
\* at a node with a larger index
C20_Witness ==
    /\ Returned("FindDFS")
    /\ graph["A"].nThreads = 1
    /\ path["A"] # << >>
    /\ \E e \in graph["A"].adjacencyMatrix :
          /\ e[1] > path["A"][1]
          /\ WalkLength(graph["A"].adjacencyMatrix, e[1], {}) = Len(path["A"])

\* nodes at the ends of the node set and of the ranges of two and of three
\* workers
ProbeNodes == {0, 1, 1364, 1365, 2047, 2048, 2729, 2730, 4094, 4095}

\* C21: the ranges [startNode, endNode) of the n workers start at 0, each
\* begins where the one before it ends, none ends before it begins and the
\* last ends at 4096; so a node lies in the range of exactly one worker
C21_RangesPartitionNodes ==
    Returned("Partition") =>
        LET n == ret.nThreads
        IN /\ ret.startNode[0] = 0
           /\ ret.endNode[n - 1] = 4096
           /\ \A t \in 0..(n - 1) : ret.startNode[t] <= ret.endNode[t]
           /\ \A t \in 0..(n - 2) : ret.startNode[t + 1] = ret.endNode[t]
           /\ \A node \in ProbeNodes :
                 Cardinality({t \in 0..(n - 1) :
                                ret.startNode[t] <= node /\ node < ret.endNode[t]}) = 1

\* the ranges of more workers than there are nodes have been computed
C21_Witness ==
    /\ Returned("Partition")
    /\ ret.nThreads > 4096

\* C22: a FindDFS that has begun returns, and the node sequence of the path
\* object is assigned, and the call left, only when every worker has run
\* through all it has to compare
C22_FindDFSTerminates ==
    /\ (call # Idle) ~> (call = Idle)
    /\ [][(call # Idle /\ (call' = Idle \/ path' # path))
             => \A t \in 0..(graph["A"].nThreads - 1) :
                    call.pos[t] = Len(call.cands[t])]_vars

\* FindDFS has returned with two workers or more on a matrix with a cycle
C22_Witness ==
    /\ Returned("FindDFS")
    /\ graph["A"].nThreads >= 2
    /\ ~Acyclic(graph["A"].adjacencyMatrix)

\* C23: the thread count is 1 before EnableParallelDFS is called and never
\* 0; after the call it is the number of cores of the platform, and the
\* assertion of SetNumThreads held
C23_ThreadCountIsCoreCount ==
    /\ graph["A"].nThreads # 0
    /\ ret.op = "new" => graph["A"].nThreads = 1
    /\ Returned("EnableParallelDFS") =>
          /\ ret.asserted
          /\ graph["A"].nThreads = ret.cores

\* C24: when Initialize(pk, sk) has returned true, no bit of the matrix of
\* its instance is set and the instance holds the keys pk and sk
C24_InitializeClearsMatrix ==
    [][\A i \in Instances, k \in KeyIds :
          (Initialize(i, k) /\ ret'.value)
              => /\ graph'[i].adjacencyMatrix = {}
                 /\ graph'[i].publicKey = k
                 /\ graph'[i].secretKey = k]_vars

\* C25: when Validate has returned true, IsValid on the same instance
\* returns true: the stored nodes are not empty and each consecutive pair of
\* them is an edge of the stored matrix
C25_ValidatedPathIsValid ==
    (Returned("Validate") /\ ret.value)
        => IsValid(path[ret.inst], graph[ret.inst].adjacencyMatrix)

\* C26: when Mine has returned true the stored solution has 1280 bytes,
\* whatever the lengths of the header and the nonce
C26_SolutionHas1280Bytes ==
    (Returned("Mine") /\ ret.value) => Len(solution[ret.inst].solution) = 1280


\* the matrix of instance i, when it has an edge, is the derivation of the
\* enc that the instance holds
DerivedFromStoredEnc(i) ==
    graph[i].adjacencyMatrix # {} =>
        graph[i].adjacencyMatrix = UpdateGraphFromData({}, graph[i].enc).adj

\* this step is the entry of a Mine call on instance i: the call either
\* returns false at once or starts its path search
MineCalled(i) ==
    /\ call = Idle
    /\ \/ call' # Idle /\ call'.op = "Mine" /\ call'.inst = i
       \/ call' = Idle /\ ret'.op = "Mine" /\ ret'.inst = i

\* enc, iv and KEM ciphertext of graph record g are those of one Generate
\* call: enc is the encryption of header || nonce under the secret that the
\* ciphertext encapsulates, with the stored iv
FromOneGenerate(g) ==
    LET ss == RecoverSharedSecret(g.ciphertext, g.secretKey)
        d == DecryptData(g.enc, ss.sharedSecret, g.iv)
    IN ss.ok /\ d.ok /\ d.message = g.header \o g.nonce

\* C27: between calls a matrix with an edge is the derivation of the enc
\* stored beside it, and a Mine call that writes enc, iv or the KEM
\* ciphertext leaves the three as one Generate call produces them (a
\* Validate call takes the three out of one input)
C27_GraphConsistent ==
    /\ [](call = Idle => \A i \in Instances : DerivedFromStoredEnc(i))
    /\ [][\A i \in Instances :
            (MineCalled(i) /\ WritesCrypto(i)) => FromOneGenerate(graph'[i])]_vars

\* C28: when FindDFS has stored a non-empty sequence on a matrix that is the
\* derivation of the bytes the graph holds, the sequence is a simple path of
\* the matrix with at least 2 nodes; its first node has a non-empty row and
\* no incoming edge, its last node has an empty row
FindDFSStored ==
    call = Idle /\ ret.op \in {"FindDFS", "PathValidate"}

C28_StoredPathShape ==
    LET adj == graph["A"].adjacencyMatrix
        p == path["A"]
    IN (/\ FindDFSStored
        /\ p # << >>
        /\ adj = UpdateGraphFromData({}, graph["A"].enc).adj)
       => /\ Len(p) >= 2
          /\ \A j, k \in 1..Len(p) : p[j] = p[k] => j = k
          /\ \A k \in 1..(Len(p) - 1) : << p[k], p[k + 1] >> \in adj
          /\ Row(adj, p[1]) # {}
          /\ \A e \in adj : e[2] # p[1]
          /\ Row(adj, p[Len(p)]) = {}

\* two workers have stored a path of three nodes on a derived matrix that
\* holds a second chain
C28_Witness ==
    /\ FindDFSStored /\ ret.op = "FindDFS"
    /\ graph["A"].enc # << >>
    /\ graph["A"].nThreads = 2
    /\ Len(path["A"]) = 3
    /\ Cardinality(graph["A"].adjacencyMatrix) = 3

\* C29: a read into a vector of n bytes fails and leaves the cursor where it
\* is when fewer than n bytes remain; a read of either kind that succeeds
\* delivers the bytes from the cursor on and moves the cursor by the number
\* of bytes it delivered, so no byte is delivered twice; the cursor never
\* passes the end of the buffer
C29_ReadsAreSequential ==
    [][call.op = "stream" =>
          LET s == call.s
              t == call'.s
          IN /\ (ret'.op = "ReadVec" /\ ret'.n > Len(s.vchData) - s.nPos)
                    => (~ret'.ok /\ t.nPos = s.nPos)
             /\ ret'.ok => /\ t.nPos = s.nPos + Len(ret'.out)
                           /\ ret'.out = Slice(s.vchData, s.nPos, t.nPos)
             /\ t.nPos <= Len(t.vchData)]_vars

\* C30: in a Validate call whose graph part has TOTAL_SIZE = 1248 bytes the
\* three reads leave enc = bytes [0, 144), iv = bytes [144, 160) and KEM
\* ciphertext = bytes [160, 1248) of it, and the read through the pointer
\* copies exactly the 1088 bytes that the ciphertext array holds
C30_ReadsFillTheThreeFields ==
    [][\A i \in Instances, in \in Descriptions :
          (ValidateCalled(i, in) /\ Len(InputBytes(in)) >= SOLUTION_SIZE) =>
              LET blob == SplitSolution(InputBytes(in)).graphData
                  r1 == StreamReadVec(StreamOf(blob), ENC_SIZE)
                  r2 == StreamReadVec(r1.s, IV_SIZE)
                  r3 == StreamReadRaw(r2.s)
              IN /\ Len(blob) = TOTAL_SIZE
                 /\ graph'[i].enc = Slice(blob, 0, 144)
                 /\ graph'[i].iv = Slice(blob, 144, 160)
                 /\ graph'[i].ciphertext = Slice(blob, 160, 1248)
                 /\ r3.ok /\ Len(r3.out) = 1088
                 /\ Len(graph[i].ciphertext) = 1088]_vars

\* the validator, whose ciphertext array held zeros, has accepted the
\* miner's solution and holds its KEM ciphertext
C30_Witness ==
    /\ Returned("Validate") /\ ret.inst = "B" /\ ret.value
    /\ ret.in = Stored
    /\ graph["B"].ciphertext = Slice(solution["A"].solution, 160, 1248)
    /\ graph["B"].ciphertext # Fill(CIPHERTEXT_SIZE, 0)
    /\ graph["B"].iv = Slice(solution["A"].solution, 144, 160)
====
